---- MODULE Spec2Model ----
(***************************************************************************)
(* State-machine model of the credential / session core of                 *)
(* sfcc-webdav-manager:                                                    *)
(*   OAuth2Manager      (src/src/oauth2-manager.js)                        *)
(*   CredentialManager  (src/src/credential-manager.js)                    *)
(*   WebDAVManager      (src/unnamed/part_000)                             *)
(* Times are milliseconds (Date.now()), lifetimes declared by the token    *)
(* endpoint are seconds (expires_in), exactly as in the source.            *)
(***************************************************************************)
EXTENDS Integers, Sequences, FiniteSets, TLC

(***************************************************************************)
(* Bounds of the model                                                     *)
(***************************************************************************)
\* token requests issued in one behaviour
MaxRequests == 3
\* token requests in flight at the same time
MaxInFlight == 2
\* the clock is not advanced beyond this instant while refreshes are pending
MaxNow == 3400000
\* seconds that pass while only the store is used
MaxStoreSeconds == 1
\* token requests issued in the runs that follow one connection's timers
MaxTimerRequests == 4

(***************************************************************************)
(* Input domains                                                           *)
(***************************************************************************)
\* connection ids (keys of the token map and of the store)
Ids == {"conn_a", "conn_b"}
\* clientId/clientSecret pairs
Client1 == [clientId |-> "cid1", clientSecret |-> "csecret1"]
Client2 == [clientId |-> "cid2", clientSecret |-> "csecret2"]
Clients == {Client1, Client2}
\* the client credentials a caller of the token cache holds for a connection
\* (main.js passes the ones stored under that id)
ClientOf == [i \in Ids |-> IF i = "conn_a" THEN Client1 ELSE Client2]
\* bodies of successful token responses (access_token is the request's own
\* fresh token).  expires_in 0 stands for a response that declares none (the
\* field is absent or falsy), token_type "" for an absent field.
Responses ==
    {[expires_in |-> 0,   token_type |-> ""],
     [expires_in |-> 120, token_type |-> "mac"],
     [expires_in |-> 400, token_type |-> "Bearer"]}
\* ways a token request fails: transport error, non-2xx status, body that
\* does not parse, body without access_token
FailKinds == {"transport", "status", "parse", "no_access_token"}

NoToken == [accessToken |-> 0]
NoTimer == 0

Max(a, b) == IF a >= b THEN a ELSE b

VARIABLES
    now,            \* Date.now()
    tokens,         \* OAuth2Manager.tokens: id -> entry | NoToken
    refreshTimers,  \* OAuth2Manager.refreshTimers: id -> timer handle | NoTimer
    timeouts,       \* the runtime's pending setTimeout callbacks
    requests,       \* token requests in flight (makeHttpsRequest promises)
    nextRid,        \* number of the next token request (1 + requests issued)
    ev,             \* history: what the last step did, and what it wrote to
                    \* the console
    cleared,        \* history: ids whose connection was deleted with its tokens
                    \* cleared, and for which getAccessToken was not called since
    connections,    \* store key 'connections': sequence of public records
    sensitiveData,  \* store key 'sensitiveData': id -> encrypted blob | NoBlob
    encryptionSalt, \* store key 'encryptionSalt': the encryption key | NoKey
    client,         \* WebDAVManager.client: what the client was built from | NoClient
    currentCredentials, \* WebDAVManager.currentCredentials | NoCredentials
    webdavModule,   \* WebDAVManager.webdavModule is loaded
    oauth2Manager,  \* WebDAVManager.oauth2Manager is set (the token cache is
                    \* injected)
    tc,             \* the testConnection calls: where each one stands
    running         \* the call whose code runs now (it has not reached an await
                    \* that suspends it), or "none"

tokVars == <<tokens, refreshTimers, timeouts, requests, nextRid>>
storeVars == <<connections, sensitiveData, encryptionSalt>>
wdVars == <<client, currentCredentials, webdavModule, oauth2Manager, tc, running>>
vars == <<now, tokens, refreshTimers, timeouts, requests, nextRid,
          ev, cleared, connections, sensitiveData, encryptionSalt,
          client, currentCredentials, webdavModule, oauth2Manager, tc, running>>

\* a console line: the source line of the console.log call and the fields it
\* prints in full, as <<field, value>> pairs
LogLine(line, full) == [line |-> line, full |-> full]

\* what a step did: its kind, the connection id, the token, forceRefresh and
\* the caller where they apply, the console lines it wrote, and the
\* credentials object it was given (saveCredentials)
Ev(kind, id, tok, force, caller) ==
    [kind |-> kind, id |-> id, tok |-> tok, force |-> force, caller |-> caller,
     log |-> {}, arg |-> [authType |-> "<none>"]]
EvLog(kind, id, tok, force, caller, log) ==
    [kind |-> kind, id |-> id, tok |-> tok, force |-> force, caller |-> caller,
     log |-> log, arg |-> [authType |-> "<none>"]]
EvArg(kind, id, arg) ==
    [kind |-> kind, id |-> id, tok |-> 0, force |-> FALSE, caller |-> "env",
     log |-> {}, arg |-> arg]

(***************************************************************************)
(* OAuth2Manager: pure parts                                               *)
(***************************************************************************)

\* getAccessToken, line 19: the cached entry is used
UseCached_IgnoreForce(tokenData, forceRefresh, t) ==
    tokenData # NoToken /\ tokenData.expiresAt > t
UseCached(tokenData, forceRefresh, t) ==
    ~forceRefresh /\ tokenData # NoToken /\ tokenData.expiresAt > t

\* requestNewToken, line 68: seconds the entry is kept
ExpiresIn_NoBuffer(expires_in) ==
    IF expires_in = 0 THEN 3600 ELSE expires_in
ExpiresIn(expires_in) ==
    (IF expires_in = 0 THEN 3600 ELSE expires_in) - 300

\* requestNewToken, line 69
ExpiresAt(expires_in, t) == t + ExpiresIn(expires_in) * 1000

\* requestNewToken, line 75
TokenType(token_type) == IF token_type = "" THEN "Bearer" ELSE token_type

\* scheduleTokenRefresh, line 105
RefreshDelay_NoFloor(delayMs) == delayMs - (5 * 60 * 1000)
RefreshDelay(delayMs) == Max(delayMs - (5 * 60 * 1000), 60000)

\* clearTimeout(handle): the callback registered under handle never runs
ClearTimeout(pending, handle) == {t \in pending : t.h # handle}

\* requestNewToken, lines 72-76: the entry stored for response (rid, expires_in,
\* token_type) processed at time t.  setAt, expires_in and client are history
\* fields: when the entry was stored, what the server declared and which
\* client credentials obtained it.
NewEntry(rid, cc, expires_in, token_type, t) ==
    [accessToken |-> rid,
     expiresAt   |-> ExpiresAt(expires_in, t),
     tokenType   |-> TokenType(token_type),
     setAt       |-> t,
     expires_in  |-> expires_in,
     client      |-> cc]

\* scheduleTokenRefresh, lines 97-121: the pending callbacks afterwards.
\* setAt and expires_in are history fields of the timer.
ScheduledTimeouts(pending, existingTimer, h, id, cc, delayMs, expires_in, t) ==
    (IF existingTimer # NoTimer THEN ClearTimeout(pending, existingTimer) ELSE pending)
    \cup {[h |-> h, id |-> id, client |-> cc,
           fireAt |-> t + RefreshDelay(delayMs),
           setAt |-> t, expires_in |-> expires_in]}

(***************************************************************************)
(* OAuth2Manager: steps                                                    *)
(***************************************************************************)

\* requestNewToken, lines 38-44: the request payload is printed as it is sent,
\* client_id and client_secret included (lines 35-36 print '[present]' only)
RequestNewTokenLog(cc) ==
    {LogLine(44, {<<"client_id", cc.clientId>>,
                  <<"client_secret", cc.clientSecret>>})}

\* requestNewToken up to the await of makeHttpsRequest (lines 32-56)
StartRequestWithin(limit, id, cc, force, caller) ==
    /\ nextRid <= limit
    /\ Cardinality(requests) < MaxInFlight
    /\ requests' = requests \cup
         {[rid |-> nextRid, id |-> id, client |-> cc,
           force |-> force, caller |-> caller]}
    /\ nextRid' = nextRid + 1

StartRequest(id, cc, force, caller) ==
    StartRequestWithin(MaxRequests, id, cc, force, caller)

\* getAccessToken called by a foreground caller outside the session binder
\* (main.js fetch-catalogs, or any holder of the manager)
GetAccessTokenWithin(limit, id, cc, forceRefresh) ==
    /\ IF UseCached(tokens[id], forceRefresh, now)
       THEN /\ ev' = [Ev("hit", id, tokens[id].accessToken, forceRefresh, "env")
                        EXCEPT !.arg = [authType |-> "<none>", supplied |-> cc]]
            /\ UNCHANGED <<now, tokVars>>
       ELSE /\ StartRequestWithin(limit, id, cc, forceRefresh, "env")
            /\ ev' = EvLog("request", id, 0, forceRefresh, "env",
                           RequestNewTokenLog(cc))
            /\ UNCHANGED <<now, tokens, refreshTimers, timeouts>>
    /\ cleared' = cleared \ {id}
    /\ UNCHANGED <<storeVars, wdVars>>

GetAccessToken(id, cc, forceRefresh) ==
    GetAccessTokenWithin(MaxRequests, id, cc, forceRefresh)

\* a token response with access_token is processed (lines 58-83).  The handle
\* setTimeout returns is named after the request whose response scheduled it.
StoreToken_KeepExpiry(r, expires_in, token_type) ==
    /\ tokens' = [tokens EXCEPT ![r.id] =
                     IF tokens[r.id] = NoToken
                     THEN NewEntry(r.rid, r.client, expires_in, token_type, now)
                     ELSE [NewEntry(r.rid, r.client, expires_in, token_type, now)
                             EXCEPT !.expiresAt = tokens[r.id].expiresAt]]
    /\ timeouts' = ScheduledTimeouts(timeouts, refreshTimers[r.id], r.rid,
                                     r.id, r.client,
                                     ExpiresIn(expires_in) * 1000, expires_in, now)
    /\ refreshTimers' = [refreshTimers EXCEPT ![r.id] = r.rid]

StoreToken(r, expires_in, token_type) ==
    /\ tokens' = [tokens EXCEPT ![r.id] =
                     NewEntry(r.rid, r.client, expires_in, token_type, now)]
    /\ timeouts' = ScheduledTimeouts(timeouts, refreshTimers[r.id], r.rid,
                                     r.id, r.client,
                                     ExpiresIn(expires_in) * 1000, expires_in, now)
    /\ refreshTimers' = [refreshTimers EXCEPT ![r.id] = r.rid]

\* the timer callback's catch block (lines 111-116)
EvictOnRefreshFailure_KeepTimer(id) ==
    /\ tokens' = [tokens EXCEPT ![id] = NoToken]
    /\ UNCHANGED <<refreshTimers, timeouts>>

EvictOnRefreshFailure(id) ==
    /\ tokens' = [tokens EXCEPT ![id] = NoToken]
    /\ refreshTimers' = [refreshTimers EXCEPT ![id] = NoTimer]
    /\ UNCHANGED timeouts

RequestSucceeds(r, expires_in, token_type) ==
    /\ r \in requests
    /\ r.caller \in {"env", "timer"}
    /\ requests' = requests \ {r}
    /\ StoreToken(r, expires_in, token_type)
    /\ ev' = [Ev("token", r.id, r.rid, r.force, r.caller) EXCEPT
                 !.arg = [authType |-> "<none>",
                          overtaken |-> tokens[r.id].accessToken > r.rid]]
    /\ UNCHANGED <<now, nextRid, cleared>>
    /\ UNCHANGED <<storeVars, wdVars>>

\* requestNewToken's catch block (lines 88-91): the error is thrown on to the
\* caller of getAccessToken
TokenRequestFailed_Evicting(id) ==
    /\ tokens' = [tokens EXCEPT ![id] = NoToken]
    /\ UNCHANGED <<refreshTimers, timeouts>>

TokenRequestFailed(id) ==
    UNCHANGED <<tokens, refreshTimers, timeouts>>

\* a token request fails (makeHttpsRequest rejects, lines 160-166, JSON.parse
\* throws, line 60, or the body has no access_token, lines 84-87)
RequestFails(r, kind) ==
    /\ r \in requests
    /\ r.caller \in {"env", "timer"}
    /\ requests' = requests \ {r}
    /\ IF r.caller = "timer"
       THEN EvictOnRefreshFailure(r.id)
       ELSE TokenRequestFailed(r.id)
    /\ ev' = Ev("failed", r.id, 0, r.force, r.caller)
    /\ UNCHANGED <<now, nextRid, cleared>>
    /\ UNCHANGED <<storeVars, wdVars>>

\* the setTimeout callback runs (lines 107-110)
TimerFiresWithin(limit, t) ==
    /\ t \in timeouts
    /\ t.fireAt <= now
    /\ timeouts' = timeouts \ {t}
    /\ StartRequestWithin(limit, t.id, t.client, FALSE, "timer")
    /\ ev' = EvLog("fire", t.id, 0, FALSE, "timer", RequestNewTokenLog(t.client))
    /\ UNCHANGED <<now, tokens, refreshTimers, cleared>>
    /\ UNCHANGED <<storeVars, wdVars>>

TimerFires(t) == TimerFiresWithin(MaxRequests, t)

\* clearConnection (lines 126-136)
ClearConnectionEffect(id) ==
    /\ timeouts' = IF refreshTimers[id] # NoTimer
                   THEN ClearTimeout(timeouts, refreshTimers[id])
                   ELSE timeouts
    /\ refreshTimers' = [refreshTimers EXCEPT ![id] = NoTimer]
    /\ tokens' = [tokens EXCEPT ![id] = NoToken]

ClearConnection(id) ==
    /\ ClearConnectionEffect(id)
    /\ ev' = Ev("clear", id, 0, FALSE, "env")
    /\ UNCHANGED <<now, requests, nextRid, cleared>>
    /\ UNCHANGED <<storeVars, wdVars>>

\* clearAllTokens (lines 141-148)
ClearAllTokens ==
    /\ tokens' = [i \in Ids |-> NoToken]
    /\ timeouts' = {t \in timeouts : \A i \in Ids : refreshTimers[i] # t.h}
    /\ refreshTimers' = [i \in Ids |-> NoTimer]
    /\ ev' = Ev("clearAll", "", 0, FALSE, "env")
    /\ UNCHANGED <<now, requests, nextRid, cleared>>
    /\ UNCHANGED <<storeVars, wdVars>>

\* cleanup (lines 180-187)
Cleanup ==
    /\ timeouts' = {t \in timeouts : \A i \in Ids : refreshTimers[i] # t.h}
    /\ refreshTimers' = [i \in Ids |-> NoTimer]
    /\ tokens' = [i \in Ids |-> NoToken]
    /\ ev' = Ev("cleanup", "", 0, FALSE, "env")
    /\ UNCHANGED <<now, requests, nextRid, cleared>>
    /\ UNCHANGED <<storeVars, wdVars>>

(***************************************************************************)
(* Time.  The clock moves to the next instant at which something can be    *)
(* observed: a pending callback becomes due, a cached entry reaches its   *)
(* expiresAt or the second after it.  A due callback runs before the clock *)
(* moves past it.                                                          *)
(***************************************************************************)
Instants ==
    {t.fireAt : t \in timeouts}
    \cup UNION {{tokens[i].expiresAt, tokens[i].expiresAt + 1000} :
                  i \in {j \in Ids : tokens[j] # NoToken}}

Tick(t) ==
    /\ t \in Instants
    /\ t > now
    /\ t <= MaxNow
    /\ \A x \in timeouts : t <= x.fireAt
    /\ now' = t
    /\ ev' = Ev("tick", "", 0, FALSE, "env")
    /\ UNCHANGED <<tokVars, cleared>>
    /\ UNCHANGED <<storeVars, wdVars>>

(***************************************************************************)
(* CredentialManager (src/src/credential-manager.js)                       *)
(***************************************************************************)
\* an absent (undefined) field of a credentials object
Undef == "<undefined>"
\* credentials.lastLocalFolder || null
Null == "<null>"
NoBlob == [key |-> 0]
NoKey == 0

AuthTypes == {"basic", "bearer", "oauth2"}
SecretFields == {"username", "password", "token", "clientId", "clientSecret"}

\* the credentials objects the connection form submits (renderer saveConnection):
\* name, url, authType, the fields of the chosen authType, and the id when an
\* existing connection is edited
FormSecrets ==
    {[authType |-> "basic", username |-> "alice", password |-> pw, token |-> Undef,
      clientId |-> Undef, clientSecret |-> Undef] : pw \in {"pw1", "pw2"}}
    \cup {[authType |-> "bearer", username |-> Undef, password |-> Undef,
           token |-> "static-token", clientId |-> Undef, clientSecret |-> Undef]}
    \cup {[authType |-> "oauth2", username |-> Undef, password |-> Undef,
           token |-> Undef, clientId |-> c.clientId, clientSecret |-> c.clientSecret] :
              c \in Clients}

Credentials(id, name, url, f) ==
    [id |-> id, name |-> name, url |-> url, authType |-> f.authType,
     username |-> f.username, password |-> f.password, token |-> f.token,
     clientId |-> f.clientId, clientSecret |-> f.clientSecret,
     lastLocalFolder |-> Undef]

SaveInputs ==
    {Credentials(id, "dev", "https://x/webdav", f) :
        id \in Ids \cup {Undef}, f \in FormSecrets}

\* generateConnectionId (lines 255-259): 'conn_' + the first 8 hex digits of
\* md5(name + timestamp): a fixed function of name and time into a finite
\* range, so different (name, time) pairs can produce the same id
NameCode(name) == IF name = "dev" THEN 0 ELSE 1
GenerateConnectionId(name, t) ==
    IF (NameCode(name) + (t \div 1000)) % 2 = 0 THEN "conn_a" ELSE "conn_b"

\* saveCredentials, lines 87-95
PublicData_WithPassword(credentials, connectionId, t) ==
    [name |-> credentials.name,
     url |-> credentials.url,
     authType |-> credentials.authType,
     username |-> IF credentials.authType = "basic" THEN credentials.password ELSE Undef,
     lastConnected |-> t,
     lastLocalFolder |-> IF credentials.lastLocalFolder = Undef
                         THEN Null ELSE credentials.lastLocalFolder,
     id |-> connectionId]
PublicData(credentials, connectionId, t) ==
    [name |-> credentials.name,
     url |-> credentials.url,
     authType |-> credentials.authType,
     username |-> IF credentials.authType = "basic" THEN credentials.username ELSE Undef,
     lastConnected |-> t,
     lastLocalFolder |-> IF credentials.lastLocalFolder = Undef
                         THEN Null ELSE credentials.lastLocalFolder,
     id |-> connectionId]

\* saveCredentials, lines 98-113; a field that is not set is undefined
SensitiveData_NoClientSecret(credentials) ==
    [f \in SecretFields |->
        CASE credentials.authType = "basic" /\ f \in {"username", "password"} ->
                credentials[f]
          [] credentials.authType = "bearer" /\ f = "token" -> credentials[f]
          [] credentials.authType = "oauth2" /\ f = "clientId" -> credentials[f]
          [] OTHER -> Undef]
SensitiveData(credentials) ==
    [f \in SecretFields |->
        CASE credentials.authType = "basic" /\ f \in {"username", "password"} ->
                credentials[f]
          [] credentials.authType = "bearer" /\ f = "token" -> credentials[f]
          [] credentials.authType = "oauth2" /\ f \in {"clientId", "clientSecret"} ->
                credentials[f]
          [] OTHER -> Undef]

\* JSON.stringify / JSON.parse of a sensitive-data object: the text lists the
\* defined fields only; parsing yields undefined for every field not listed
Stringify(obj) == {<<f, obj[f]>> : f \in {g \in DOMAIN obj : obj[g] # Undef}}
Parse(text) ==
    [f \in SecretFields |->
        IF \E pr \in text : pr[1] = f
        THEN (CHOOSE pr \in text : pr[1] = f)[2]
        ELSE Undef]

\* encryptData / decryptData (lines 264-276): AES under the stored key.  The
\* ciphertext is opaque; it decrypts to the text only under the key that made
\* it, and to nothing JSON.parse accepts under any other key.
EncryptData(data, key) == [key |-> key, text |-> data]
DecryptData(blob, key) ==
    IF blob.key = key THEN [ok |-> TRUE, text |-> blob.text]
    ELSE [ok |-> FALSE, text |-> {}]

\* findIndex(conn => conn.id === connectionId); 0 when there is none
FindIndex_Never(conns, id) == 0

FindIndex(conns, id) ==
    IF \E k \in 1..Len(conns) : conns[k].id = id
    THEN CHOOSE k \in 1..Len(conns) :
            conns[k].id = id /\ \A j \in 1..(k - 1) : conns[j].id # id
    ELSE 0

\* connections.splice(index, 1)
Splice_Nothing(conns, index) == conns
Splice_First(conns, index) == Tail(conns)
Splice(conns, index) ==
    [k \in 1..(Len(conns) - 1) |-> IF k < index THEN conns[k] ELSE conns[k + 1]]

\* loadConnections (lines 141-147): the public records as stored
LoadConnections == connections

\* loadCredentials (lines 152-182): what it returns, or the message of the
\* error it throws (line 180 puts 'Failed to load credentials: ' before each)
LoadCredentials_EmptyBundle(connectionId) ==
    LET idx == FindIndex(connections, connectionId) IN
    IF idx = 0
    THEN [ok |-> FALSE, error |-> "Connection not found"]
    ELSE LET decrypted == IF sensitiveData[connectionId] = NoBlob
                          THEN [ok |-> TRUE, text |-> {}]
                          ELSE DecryptData(sensitiveData[connectionId], encryptionSalt)
             sens == Parse(decrypted.text)
             conn == connections[idx] IN
         [ok |-> TRUE, error |-> "",
          credentials |->
             [id |-> conn.id, name |-> conn.name, url |-> conn.url,
              authType |-> conn.authType,
              lastConnected |-> conn.lastConnected,
              lastLocalFolder |-> conn.lastLocalFolder,
              username |-> IF sens.username # Undef THEN sens.username
                           ELSE conn.username,
              password |-> sens.password,
              token |-> sens.token,
              clientId |-> sens.clientId,
              clientSecret |-> sens.clientSecret]]
LoadCredentials(connectionId) ==
    LET idx == FindIndex(connections, connectionId) IN
    IF idx = 0
    THEN [ok |-> FALSE, error |-> "Connection not found"]
    ELSE IF sensitiveData[connectionId] = NoBlob
    THEN [ok |-> FALSE, error |-> "Credentials not found in store"]
    ELSE LET decrypted == DecryptData(sensitiveData[connectionId], encryptionSalt) IN
         IF ~decrypted.ok
         THEN [ok |-> FALSE, error |-> "Unexpected end of JSON input"]
         ELSE LET sens == Parse(decrypted.text)
                  conn == connections[idx] IN
              [ok |-> TRUE, error |-> "",
               credentials |->
                  [id |-> conn.id, name |-> conn.name, url |-> conn.url,
                   authType |-> conn.authType,
                   lastConnected |-> conn.lastConnected,
                   lastLocalFolder |-> conn.lastLocalFolder,
                   username |-> IF sens.username # Undef THEN sens.username
                                ELSE conn.username,
                   password |-> sens.password,
                   token |-> sens.token,
                   clientId |-> sens.clientId,
                   clientSecret |-> sens.clientSecret]]

\* loadCredentials is called (main.js, before connecting or editing)
LoadCredentialsCall(connectionId) ==
    /\ ev' = EvArg("load", connectionId, LoadCredentials(connectionId))
    /\ UNCHANGED <<now, tokVars, cleared, storeVars, wdVars>>

\* saveCredentials (lines 78-136)
SaveCredentials(credentials) ==
    LET connectionId == IF credentials.id # Undef THEN credentials.id
                        ELSE GenerateConnectionId(credentials.name, now)
        publicData == PublicData(credentials, connectionId, now)
        blob == EncryptData(Stringify(SensitiveData(credentials)), encryptionSalt)
        existingIndex == FindIndex(connections, connectionId)
    IN
    /\ IF encryptionSalt = NoKey
       THEN \* store.get('encryptionSalt') is undefined and CryptoJS.AES.encrypt
            \* throws on it (line 115, before the first write); the error is
            \* thrown on as 'Failed to save credentials' (line 134)
            /\ ev' = EvArg("saveFailed", connectionId, credentials)
            /\ UNCHANGED <<connections, sensitiveData>>
       ELSE /\ sensitiveData' = [sensitiveData EXCEPT ![connectionId] = blob]
            /\ connections' = IF existingIndex > 0
                              THEN [connections EXCEPT ![existingIndex] = publicData]
                              ELSE Append(connections, publicData)
            /\ ev' = EvArg("saved", connectionId, credentials)
    /\ UNCHANGED <<now, tokVars, cleared, encryptionSalt, wdVars>>

\* deleteCredentials (lines 187-215); the OAuth2 manager is the one main.js
\* injects (main.js line 22)
DeleteCredentials(connectionId) ==
    LET connectionIndex == FindIndex(connections, connectionId) IN
    IF connectionIndex > 0
    THEN /\ IF connections[connectionIndex].authType = "oauth2"
            THEN /\ ClearConnectionEffect(connectionId)
                 /\ cleared' = cleared \cup {connectionId}
            ELSE UNCHANGED <<tokens, refreshTimers, timeouts, cleared>>
         /\ connections' = Splice(connections, connectionIndex)
         /\ sensitiveData' = [sensitiveData EXCEPT ![connectionId] = NoBlob]
         /\ ev' = Ev("deleted", connectionId, 0, FALSE, "env")
         /\ UNCHANGED <<now, requests, nextRid, encryptionSalt, wdVars>>
    ELSE /\ ev' = Ev("deleteMiss", connectionId, 0, FALSE, "env")
         /\ UNCHANGED <<now, tokVars, cleared, storeVars, wdVars>>

\* updateLastConnected (lines 220-232)
UpdateLastConnected(connectionId) ==
    LET connectionIndex == FindIndex(connections, connectionId) IN
    /\ connections' = IF connectionIndex > 0
                      THEN [connections EXCEPT ![connectionIndex].lastConnected = now]
                      ELSE connections
    /\ ev' = Ev("touch", connectionId, 0, FALSE, "env")
    /\ UNCHANGED <<now, tokVars, cleared, sensitiveData, encryptionSalt, wdVars>>

\* updateLastLocalFolder (lines 237-250)
UpdateLastLocalFolder(connectionId, folderPath) ==
    LET connectionIndex == FindIndex(connections, connectionId) IN
    /\ connections' = IF connectionIndex > 0
                      THEN [connections EXCEPT
                               ![connectionIndex].lastLocalFolder = folderPath]
                      ELSE connections
    /\ ev' = Ev("folder", connectionId, 0, FALSE, "env")
    /\ UNCHANGED <<now, tokVars, cleared, sensitiveData, encryptionSalt, wdVars>>

\* deleteFromKeychain (lines 316-326): the blob alone is removed
DeleteFromKeychain(connectionId) ==
    /\ sensitiveData' = [sensitiveData EXCEPT ![connectionId] = NoBlob]
    /\ ev' = Ev("keychain", connectionId, 0, FALSE, "env")
    /\ UNCHANGED <<now, tokVars, cleared, connections, encryptionSalt, wdVars>>

\* clearAll (lines 433-443): store.clear() removes every key of the store,
\* the encryption key included
ClearAll ==
    /\ connections' = <<>>
    /\ sensitiveData' = [i \in Ids |-> NoBlob]
    /\ encryptionSalt' = NoKey
    /\ ev' = Ev("clearAll", "", 0, FALSE, "env")
    /\ UNCHANGED <<now, tokVars, cleared, wdVars>>

\* one second passes
Elapse ==
    /\ now + 1000 <= MaxStoreSeconds * 1000
    /\ now' = now + 1000
    /\ ev' = Ev("tick", "", 0, FALSE, "env")
    /\ UNCHANGED <<tokVars, cleared, storeVars, wdVars>>

\* constructor, initializeStore, initializeEncryption (lines 6-66) on a fresh
\* store file
InitStore ==
    /\ connections = <<>>
    /\ sensitiveData = [i \in Ids |-> NoBlob]
    /\ encryptionSalt = 1


\* the keys crypto.randomBytes(32) can produce
Keys == {1, 2}

(***************************************************************************)
(* WebDAVManager (src/unnamed/part_000)                                    *)
(***************************************************************************)
\* the testConnection calls that can be under way together
Procs == {"t1", "t2"}

NoClient == [token |-> "<none>"]
NoCredentials == [authType |-> "<none>"]

\* the credentials objects handed to testConnection: a saved OAuth2 connection
\* and a basic one
TestCreds ==
    {Credentials("conn_a", "dev", "https://x/webdav",
                 [authType |-> "oauth2", username |-> Undef, password |-> Undef,
                  token |-> Undef, clientId |-> Client1.clientId,
                  clientSecret |-> Client1.clientSecret]),
     Credentials("conn_b", "dev", "https://x/webdav",
                 [authType |-> "basic", username |-> "alice", password |-> "pw1",
                  token |-> Undef, clientId |-> Undef, clientSecret |-> Undef])}

\* how getDirectoryContents('') ends: a listing, an HTTP error status, or a
\* transport error (no status)
ListOutcomes == {"ok", "401", "403", "network"}

IdleCall ==
    [pc |-> "idle", cred |-> NoCredentials, tok |-> 0, forced |-> 0,
     listings |-> 0, status1 |-> "none", status2 |-> "none",
     used |-> NoClient, result |-> "none", thrown |-> "none",
     replaced |-> FALSE]

\* constructor (lines 7-12)
Constructed ==
    /\ client = NoClient
    /\ currentCredentials = NoCredentials
    /\ webdavModule = FALSE
    /\ tc = [p \in Procs |-> IdleCall]
    /\ running = "none"

\* constructor and setOAuth2Manager as called by main.js line 23
InitWebDAV ==
    /\ Constructed
    /\ oauth2Manager = TRUE

\* setOAuth2Manager (lines 17-19)
SetOAuth2Manager ==
    /\ running = "none"
    /\ ~oauth2Manager
    /\ oauth2Manager' = TRUE
    /\ ev' = Ev("wired", "", 0, FALSE, "env")
    /\ UNCHANGED <<now, tokVars, cleared, storeVars, client, currentCredentials,
                   webdavModule, tc, running>>

\* initializeClient, lines 52-64 and 83-89: the auth config of the client
AuthConfig_TokenForBasic(credentials, accessToken) ==
    CASE credentials.authType \in {"basic", "bearer"} ->
            [cred |-> credentials, username |-> Undef, password |-> Undef,
             token |-> credentials.token]
      [] OTHER ->
            [cred |-> credentials, username |-> Undef, password |-> Undef,
             token |-> accessToken]

AuthConfig(credentials, accessToken) ==
    CASE credentials.authType = "basic" ->
            [cred |-> credentials, username |-> credentials.username,
             password |-> credentials.password, token |-> Undef]
      [] credentials.authType = "bearer" ->
            [cred |-> credentials, username |-> Undef, password |-> Undef,
             token |-> credentials.token]
      [] OTHER ->
            [cred |-> credentials, username |-> Undef, password |-> Undef,
             token |-> accessToken]

\* the defined ones among the given fields of an object, as printed by
\* JSON.stringify
PrintedFields(obj, fields) ==
    {<<f, obj[f]>> : f \in {g \in fields : obj[g] # Undef}}

\* initializeClient, line 46: the full credentials object is printed
InitializeClientLog(credentials) ==
    {LogLine(46, PrintedFields(credentials, SecretFields))}

\* initializeClient, line 107: the complete auth config is printed (lines 50
\* and 81 print the first 10 characters of the token only)
AuthConfigLog(authConfig) ==
    {LogLine(107,
        PrintedFields(authConfig, {"username", "password"})
        \cup (CASE authConfig.cred.authType = "oauth2" ->
                      {<<"access_token", ToString(authConfig.token)>>}
                [] authConfig.cred.authType = "bearer" ->
                      {<<"access_token", authConfig.token>>}
                [] OTHER -> {}))}

\* testConnection, line 135: the credentials object is printed (lines 144 and
\* 147 print the first 20 characters of the Authorization value only)
TestConnectionLog(credentials) ==
    {LogLine(135, PrintedFields(credentials, SecretFields))}

\* testConnection, line 159: the failure is retried with a fresh token
ShouldRetry_AnyStatus(status, authType) == authType = "oauth2"
ShouldRetry(status, authType) == status = "401" /\ authType = "oauth2"

\* this.client holds a client object
HasClient == "cred" \in DOMAIN client

\* lines 109-110 executed for credentials c overwrite the client of a session
\* that was opened with other credentials (history of a call)
Overwrites(c) == HasClient /\ currentCredentials # c

\* positions at which a call is resumed by a resolved await (a microtask)
ReadyPcs == {"init1", "log1", "init2", "log2"}

\* call p suspends or returns: the next resumed call runs, if there is one
Release(p) ==
    IF \E q \in Procs \ {p} : tc[q].pc \in ReadyPcs
    THEN CHOOSE q \in Procs \ {p} : tc[q].pc \in ReadyPcs
    ELSE "none"

\* the call returns (lines 154, 183, 186, 190)
Return(p, value, calls) ==
    [calls EXCEPT ![p].pc = "done", ![p].result = value]

\* await this.oauth2Manager.getAccessToken(credentials.id, clientId,
\* clientSecret, force) inside call p: a cached token lets the call run on at
\* hitPc, otherwise the request is issued and the call waits at waitPc
AwaitToken(p, force, hitPc, waitPc, log) ==
    LET c == tc[p].cred
        cl == [clientId |-> c.clientId, clientSecret |-> c.clientSecret]
        nforced == tc[p].forced + (IF force THEN 1 ELSE 0)
    IN
    IF UseCached(tokens[c.id], force, now)
    THEN /\ tc' = [tc EXCEPT ![p].pc = hitPc,
                             ![p].tok = tokens[c.id].accessToken,
                             ![p].forced = nforced,
                             ![p].replaced = @ \/ (/\ tc[p].pc \in {"init1", "init2"}
                                                   /\ Overwrites(c))]
         /\ running' = p
         /\ ev' = [EvLog("hit", c.id, tokens[c.id].accessToken, force, p, log)
                     EXCEPT !.arg = [authType |-> "<none>", closed |-> ~HasClient]]
         /\ UNCHANGED <<requests, nextRid>>
    ELSE /\ StartRequest(c.id, cl, force, p)
         /\ tc' = [tc EXCEPT ![p].pc = waitPc, ![p].forced = nforced]
         /\ running' = Release(p)
         /\ ev' = EvLog("request", c.id, 0, force, p,
                         log \cup RequestNewTokenLog(cl))

\* testConnection is called (main.js test-connection, add-catalog-id, ...):
\* lines 129-132 and loadWebDAVModule (lines 24-36)
TestConnection(p, credentials) ==
    /\ running = "none"
    /\ tc[p].pc = "idle"
    /\ tc' = [tc EXCEPT ![p].pc = IF webdavModule THEN "init1" ELSE "import",
                        ![p].cred = credentials]
    /\ running' = IF webdavModule THEN p ELSE "none"
    /\ ev' = Ev("test", credentials.id, 0, FALSE, p)
    /\ UNCHANGED <<now, tokVars, cleared, storeVars, client, currentCredentials,
                   webdavModule, oauth2Manager>>

\* import('webdav') resolves (lines 31-35)
ImportDone(p) ==
    /\ running = "none"
    /\ tc[p].pc = "import"
    /\ webdavModule' = TRUE
    /\ UNCHANGED oauth2Manager
    /\ tc' = [tc EXCEPT ![p].pc = "init1"]
    /\ running' = p
    /\ ev' = Ev("import", "", 0, FALSE, p)
    /\ UNCHANGED <<now, tokVars, cleared, storeVars, client, currentCredentials>>

\* import('webdav') resolves for all the calls that wait for it in one turn of
\* the event loop: they are resumed together, p first
ImportDoneTogether(p) ==
    LET waiting == {q \in Procs : tc[q].pc = "import"} IN
    /\ running = "none"
    /\ p \in waiting
    /\ Cardinality(waiting) >= 2
    /\ webdavModule' = TRUE
    /\ tc' = [q \in Procs |->
                IF q \in waiting THEN [tc[q] EXCEPT !.pc = "init1"] ELSE tc[q]]
    /\ running' = p
    /\ ev' = Ev("import", "", 0, FALSE, p)
    /\ UNCHANGED <<now, tokVars, cleared, storeVars, client, currentCredentials,
                   oauth2Manager>>

\* call p reaches the end of a resumed stretch (its next await has resolved
\* already, lines 42, 132, 141) and the other resumed call runs first
Yield(p) ==
    /\ running = p
    /\ tc[p].pc \in ReadyPcs
    /\ \E q \in Procs \ {p} : tc[q].pc \in ReadyPcs
    /\ running' = Release(p)
    /\ ev' = Ev("yield", "", 0, FALSE, p)
    /\ UNCHANGED <<now, tokVars, cleared, storeVars, client, currentCredentials,
                   webdavModule, oauth2Manager, tc>>

\* initializeClient after the module is there (lines 44-110), n-th attempt
InitializeClient(p, n) ==
    LET c == tc[p].cred
        initPc == IF n = 1 THEN "init1" ELSE "init2"
        logPc == IF n = 1 THEN "log1" ELSE "log2"
        waitPc == IF n = 1 THEN "tok_init1" ELSE "tok_init2"
    IN
    /\ running = p
    /\ tc[p].pc = initPc
    /\ IF c.authType = "oauth2" /\ ~oauth2Manager
       THEN \* line 68 throws; testConnection catches it, finds no status 401
            \* on it (line 159, or line 184 in the retry) and returns false
            /\ tc' = [Return(p, "false", tc) EXCEPT
                         ![p].thrown = "OAuth2 manager not available"]
            /\ running' = Release(p)
            /\ ev' = EvLog("unavailable", c.id, 0, FALSE, p, InitializeClientLog(c))
            /\ UNCHANGED <<client, currentCredentials, requests, nextRid>>
       ELSE IF c.authType = "oauth2"
       THEN /\ AwaitToken(p, FALSE, logPc, waitPc,
                           InitializeClientLog(c)
                           \cup (IF UseCached(tokens[c.id], FALSE, now)
                                 THEN AuthConfigLog(
                                         AuthConfig(c, tokens[c.id].accessToken))
                                 ELSE {}))
            /\ IF UseCached(tokens[c.id], FALSE, now)
               THEN /\ client' = AuthConfig(c, tokens[c.id].accessToken)
                    /\ currentCredentials' = c
               ELSE UNCHANGED <<client, currentCredentials>>
       ELSE /\ client' = AuthConfig(c, Undef)
            /\ currentCredentials' = c
            /\ tc' = [tc EXCEPT ![p].pc = logPc,
                                ![p].replaced = @ \/ Overwrites(c)]
            /\ running' = p
            /\ ev' = EvLog("client", c.id, 0, FALSE, p,
                            InitializeClientLog(c)
                            \cup AuthConfigLog(AuthConfig(c, Undef)))
            /\ UNCHANGED <<requests, nextRid>>
    /\ UNCHANGED <<now, tokens, refreshTimers, timeouts, cleared, storeVars,
                   webdavModule, oauth2Manager>>

\* this.client.getDirectoryContents('') is issued by call p (lines 151, 181)
IssueListing(p, n, calls) ==
    IF HasClient
    THEN [calls EXCEPT ![p].pc = IF n = 1 THEN "list1" ELSE "list2",
                       ![p].listings = @ + 1,
                       ![p].used = client]
    ELSE \* this.client is null: the call throws a TypeError, which has no
         \* status, and testConnection returns false (lines 190, 186)
         [Return(p, "false", calls) EXCEPT ![p].thrown = "TypeError"]

\* lines 138-151 (first attempt) and 176-181 (retry): the token is looked up
\* once more for the log line, then the listing is issued
LogAndList(p, n) ==
    LET c == tc[p].cred
        logPc == IF n = 1 THEN "log1" ELSE "log2"
        waitPc == IF n = 1 THEN "tok_log1" ELSE "tok_log2"
        lookup == IF n = 1
                  THEN c.authType = "oauth2" /\ currentCredentials.authType = "oauth2"
                  ELSE TRUE
        printed == IF n = 1 THEN TestConnectionLog(c) ELSE {}
    IN
    /\ running = p
    /\ tc[p].pc = logPc
    /\ IF lookup /\ ~UseCached(tokens[c.id], FALSE, now)
       THEN AwaitToken(p, FALSE, logPc, waitPc, printed)
       ELSE /\ tc' = IssueListing(p, n, tc)
            /\ running' = Release(p)
            /\ ev' = EvLog("list", c.id, 0, FALSE, p, printed)
            /\ UNCHANGED <<requests, nextRid>>
    /\ UNCHANGED <<now, tokens, refreshTimers, timeouts, cleared, storeVars,
                   client, currentCredentials, webdavModule, oauth2Manager>>

\* the token response of a request made by call p arrives with an
\* access_token: requestNewToken stores it (lines 58-83) and the call goes on
TestTokenArrives(r, expires_in, token_type) ==
    LET p == r.caller
        c == tc[p].cred
        pc == tc[p].pc
    IN
    /\ running = "none"
    /\ r \in requests
    /\ r.caller \in Procs
    /\ requests' = requests \ {r}
    /\ StoreToken(r, expires_in, token_type)
    /\ ev' = EvLog("token", r.id, r.rid, r.force, p,
                    IF pc \in {"tok_init1", "tok_init2"}
                    THEN AuthConfigLog(AuthConfig(c, r.rid)) ELSE {})
    /\ CASE pc \in {"tok_init1", "tok_init2"} ->
              /\ client' = AuthConfig(c, r.rid)
              /\ currentCredentials' = c
              /\ tc' = [tc EXCEPT ![p].pc = IF pc = "tok_init1" THEN "log1" ELSE "log2",
                                  ![p].tok = r.rid,
                                  ![p].replaced = @ \/ Overwrites(c)]
              /\ running' = p
         [] pc \in {"tok_log1", "tok_log2"} ->
              /\ tc' = IssueListing(p, IF pc = "tok_log1" THEN 1 ELSE 2,
                                    [tc EXCEPT ![p].tok = r.rid])
              /\ running' = "none"
              /\ UNCHANGED <<client, currentCredentials>>
         [] OTHER ->
              /\ tc' = [tc EXCEPT ![p].pc = "init2", ![p].tok = r.rid]
              /\ running' = p
              /\ UNCHANGED <<client, currentCredentials>>
    /\ UNCHANGED <<now, nextRid, cleared, storeVars, webdavModule, oauth2Manager>>

\* the token request of call p fails: getAccessToken throws; in the first
\* attempt the error has no status (line 159), in the retry line 186 returns
TestTokenFails(r, kind) ==
    /\ running = "none"
    /\ r \in requests
    /\ r.caller \in Procs
    /\ requests' = requests \ {r}
    /\ tc' = Return(r.caller, "false", tc)
    /\ ev' = Ev("failed", r.id, 0, r.force, r.caller)
    /\ UNCHANGED <<now, tokens, refreshTimers, timeouts, nextRid, cleared,
                   storeVars, client, currentCredentials, webdavModule, oauth2Manager, running>>

\* the first listing ends (lines 151-168)
FirstListingDone(p, outcome) ==
    LET c == tc[p].cred
        noted == [tc EXCEPT ![p].status1 = outcome]
    IN
    /\ running = "none"
    /\ tc[p].pc = "list1"
    /\ IF outcome = "ok"
       THEN /\ tc' = Return(p, "true", noted)
            /\ ev' = Ev("listed", c.id, 0, FALSE, p)
            /\ UNCHANGED <<requests, nextRid, running>>
       ELSE IF ShouldRetry(outcome, c.authType)
       THEN /\ StartRequest(c.id, [clientId |-> c.clientId,
                                   clientSecret |-> c.clientSecret], TRUE, p)
            /\ tc' = [noted EXCEPT ![p].pc = "tok_force", ![p].forced = @ + 1]
            /\ ev' = EvLog("request", c.id, 0, TRUE, p,
                            RequestNewTokenLog([clientId |-> c.clientId,
                                                clientSecret |-> c.clientSecret]))
            /\ UNCHANGED running
       ELSE /\ tc' = Return(p, "false", noted)
            /\ ev' = Ev("listed", c.id, 0, FALSE, p)
            /\ UNCHANGED <<requests, nextRid, running>>
    /\ UNCHANGED <<now, tokens, refreshTimers, timeouts, cleared, storeVars,
                   client, currentCredentials, webdavModule, oauth2Manager>>

\* the listing of the retry ends (lines 181-187)
RetryListingDone(p, outcome) ==
    /\ running = "none"
    /\ tc[p].pc = "list2"
    /\ tc' = Return(p, IF outcome = "ok" THEN "true" ELSE "false",
                    [tc EXCEPT ![p].status2 = outcome])
    /\ ev' = Ev("listed", tc[p].cred.id, 0, FALSE, p)
    /\ UNCHANGED <<now, tokVars, cleared, storeVars, client, currentCredentials,
                   webdavModule, oauth2Manager, running>>

\* disconnect (lines 486-489), between two steps of the event loop
Disconnect_ClearingTokens ==
    /\ running = "none"
    /\ client' = NoClient
    /\ currentCredentials' = NoCredentials
    /\ tokens' = [i \in Ids |-> NoToken]
    /\ ev' = Ev("disconnect", "", 0, FALSE, "env")
    /\ UNCHANGED <<now, refreshTimers, timeouts, requests, nextRid, cleared,
                   storeVars, webdavModule, oauth2Manager, tc>>
    /\ UNCHANGED running

Disconnect ==
    /\ running = "none"
    /\ client' = NoClient
    /\ currentCredentials' = NoCredentials
    /\ ev' = Ev("disconnect", "", 0, FALSE, "env")
    /\ UNCHANGED <<now, tokVars, cleared, storeVars, webdavModule,
                   oauth2Manager, tc, running>>

(***************************************************************************)
(* Specification of the token cache alone                                  *)
(***************************************************************************)
\* OAuth2Manager constructor (lines 5-8)
InitCache ==
    /\ now = 0
    /\ tokens = [i \in Ids |-> NoToken]
    /\ refreshTimers = [i \in Ids |-> NoTimer]
    /\ timeouts = {}
    /\ requests = {}
    /\ nextRid = 1
    /\ ev = Ev("init", "", 0, FALSE, "env")
    /\ cleared = {}

InitToken ==
    /\ InitCache
    /\ InitStore
    /\ InitWebDAV

NextToken ==
    \/ \E i \in Ids, f \in BOOLEAN : GetAccessToken(i, ClientOf[i], f)
    \/ \E r \in requests, b \in Responses :
          RequestSucceeds(r, b.expires_in, b.token_type)
    \/ \E r \in requests, k \in FailKinds : RequestFails(r, k)
    \/ \E t \in timeouts : TimerFires(t)
    \/ \E i \in Ids : ClearConnection(i)
    \/ ClearAllTokens
    \/ Cleanup
    \/ \E t \in Instants : Tick(t)

SpecToken == InitToken /\ [][NextToken]_vars

(***************************************************************************)
(* Specification of the token cache for one connection and declared        *)
(* lifetimes above the 300 s buffer, followed over more requests           *)
(***************************************************************************)
TimerIds == {"conn_a"}
TimerResponses ==
    {[expires_in |-> 330, token_type |-> "Bearer"],
     [expires_in |-> 400, token_type |-> "Bearer"]}

InitTimers == InitToken

NextTimers ==
    \/ \E i \in TimerIds, f \in BOOLEAN :
          GetAccessTokenWithin(MaxTimerRequests, i, ClientOf[i], f)
    \/ \E r \in requests, b \in TimerResponses :
          RequestSucceeds(r, b.expires_in, b.token_type)
    \/ \E r \in requests, k \in FailKinds : RequestFails(r, k)
    \/ \E t \in timeouts : TimerFiresWithin(MaxTimerRequests, t)
    \/ \E i \in TimerIds : ClearConnection(i)
    \/ \E t \in Instants : Tick(t)

SpecTimers == InitTimers /\ [][NextTimers]_vars

(***************************************************************************)
(* Specification of the credential store (with the token cache wired in,   *)
(* idle)                                                                   *)
(***************************************************************************)
InitCred == InitToken

NextCred ==
    \/ \E c \in SaveInputs : SaveCredentials(c)
    \/ \E i \in Ids : DeleteCredentials(i)
    \/ \E i \in Ids : UpdateLastConnected(i)
    \/ \E i \in Ids : UpdateLastLocalFolder(i, "/home/me/cartridges")
    \/ Elapse

SpecCred == InitCred /\ [][NextCred]_vars

(***************************************************************************)
(* Specification of the store under all public operations of the           *)
(* CredentialManager, over restarts of the application                     *)
(***************************************************************************)
\* the forms used here: one of each authType
StoreOpsInputs ==
    {c \in SaveInputs : c.password \in {"pw1", Undef} /\ c.clientId \in {"cid1", Undef}}

\* the in-memory state of the managers after the application is started again
Restarted ==
    /\ tokens' = [i \in Ids |-> NoToken]
    /\ refreshTimers' = [i \in Ids |-> NoTimer]
    /\ timeouts' = {}
    /\ requests' = {}
    /\ cleared' = {}
    /\ client' = NoClient
    /\ currentCredentials' = NoCredentials
    /\ webdavModule' = FALSE
    /\ oauth2Manager' = TRUE
    /\ tc' = [p \in Procs |-> IdleCall]
    /\ running' = "none"

\* the application is started again on the store file it left: the managers
\* are constructed anew (main.js lines 15-23), the store keeps its contents,
\* and getOrCreateEncryptionKey (lines 53-66) makes a key if there is none
Restart ==
    /\ encryptionSalt' \in (IF encryptionSalt = NoKey THEN Keys ELSE {encryptionSalt})
    /\ Restarted
    /\ ev' = Ev("restart", "", 0, FALSE, "env")
    /\ UNCHANGED <<now, nextRid, connections, sensitiveData>>

\* saveCredentials is interrupted (the process dies) between its two writes,
\* store.set('sensitiveData', ...) of line 119 and store.set('connections', ...)
\* of line 130, and the application is started again.  Each store.set is one
\* atomic write of the store file.
SaveCredentialsInterrupted(credentials) ==
    LET connectionId == IF credentials.id # Undef THEN credentials.id
                        ELSE GenerateConnectionId(credentials.name, now)
        blob == EncryptData(Stringify(SensitiveData(credentials)), encryptionSalt)
    IN
    /\ encryptionSalt # NoKey
    /\ sensitiveData' = [sensitiveData EXCEPT ![connectionId] = blob]
    /\ Restarted
    /\ ev' = Ev("saveInterrupted", connectionId, 0, FALSE, "env")
    /\ UNCHANGED <<now, nextRid, connections, encryptionSalt>>

\* deleteCredentials is interrupted between store.set('connections', ...) of
\* line 202 and store.set('sensitiveData', ...) of line 206, and the
\* application is started again
DeleteCredentialsInterrupted(connectionId) ==
    LET connectionIndex == FindIndex(connections, connectionId) IN
    /\ connectionIndex > 0
    /\ connections' = Splice(connections, connectionIndex)
    /\ Restarted
    /\ ev' = Ev("deleteInterrupted", connectionId, 0, FALSE, "env")
    /\ UNCHANGED <<now, nextRid, sensitiveData, encryptionSalt>>

InitStoreOps == InitToken

NextStoreOps ==
    \/ \E c \in StoreOpsInputs : SaveCredentials(c)
    \/ \E i \in Ids : DeleteCredentials(i)
    \/ \E i \in Ids : DeleteFromKeychain(i)
    \/ \E i \in Ids : UpdateLastConnected(i)
    \/ \E i \in Ids : UpdateLastLocalFolder(i, "/home/me/cartridges")
    \/ ClearAll
    \/ Restart
    \/ Elapse

SpecStoreOps == InitStoreOps /\ [][NextStoreOps]_vars

(***************************************************************************)
(* Specification of the lookups: connections are saved, deleted, stripped  *)
(* of their blob, and loaded                                               *)
(***************************************************************************)
InitLoad == InitToken

NextLoad ==
    \/ \E c \in StoreOpsInputs : SaveCredentials(c)
    \/ \E i \in Ids : DeleteCredentials(i)
    \/ \E i \in Ids : DeleteFromKeychain(i)
    \/ \E i \in Ids : LoadCredentialsCall(i)

SpecLoad == InitLoad /\ [][NextLoad]_vars

(***************************************************************************)
(* Specification of the store when saves and deletes can be interrupted    *)
(***************************************************************************)
InitCrash == InitToken

NextCrash ==
    \/ \E c \in StoreOpsInputs : SaveCredentials(c)
    \/ \E i \in Ids : DeleteCredentials(i)
    \/ \E c \in StoreOpsInputs : SaveCredentialsInterrupted(c)
    \/ \E i \in Ids : DeleteCredentialsInterrupted(i)
    \/ Elapse

SpecCrash == InitCrash /\ [][NextCrash]_vars

(***************************************************************************)
(* Specification of the cascade: the store with a live token cache.        *)
(* Tokens are requested by the fetch-catalogs handler for saved OAuth2     *)
(* connections.                                                            *)
(***************************************************************************)
\* the forms used here: one connection, saved and edited as basic or OAuth2
CascadeInputs ==
    {c \in SaveInputs :
        /\ c.id = "conn_a"
        /\ \/ c.authType = "basic" /\ c.password = "pw1"
           \/ c.authType = "oauth2" /\ c.clientId = ClientOf[c.id].clientId}

\* ipcMain.handle('fetch-catalogs') up to the token (main.js lines 265-298)
FetchCatalogs(connectionId) ==
    LET loaded == LoadCredentials(connectionId) IN
    /\ loaded.ok
    /\ loaded.credentials.authType = "oauth2"
    /\ GetAccessToken(connectionId,
                      [clientId |-> loaded.credentials.clientId,
                       clientSecret |-> loaded.credentials.clientSecret],
                      FALSE)

InitCascade == InitToken

NextCascade ==
    \/ \E c \in CascadeInputs : SaveCredentials(c)
    \/ \E i \in Ids : DeleteCredentials(i)
    \/ \E i \in Ids : FetchCatalogs(i)
    \/ \E r \in requests, b \in Responses :
          RequestSucceeds(r, b.expires_in, b.token_type)
    \/ \E r \in requests, k \in FailKinds : RequestFails(r, k)
    \/ \E t \in timeouts : TimerFires(t)
    \/ \E t \in Instants : Tick(t)

SpecCascade == InitCascade /\ [][NextCascade]_vars

(***************************************************************************)
(* Specification of edits: one OAuth2 connection whose client credentials   *)
(* are edited under its id while its tokens are in use                     *)
(***************************************************************************)
EditInputs ==
    {c \in SaveInputs : c.id = "conn_a" /\ c.authType = "oauth2"}

InitEdit == InitToken

NextEdit ==
    \/ \E c \in EditInputs : SaveCredentials(c)
    \/ \E i \in Ids : FetchCatalogs(i)
    \/ \E r \in requests, b \in Responses :
          RequestSucceeds(r, b.expires_in, b.token_type)
    \/ \E r \in requests, k \in FailKinds : RequestFails(r, k)
    \/ \E t \in timeouts : TimerFires(t)
    \/ \E t \in Instants : Tick(t)

SpecEdit == InitEdit /\ [][NextEdit]_vars

(***************************************************************************)
(* Specification of deletes: two connections, one of them with tokens      *)
(***************************************************************************)
\* the forms used here: conn_a saved as OAuth2 or basic, conn_b as basic
DeleteInputs ==
    CascadeInputs
    \cup {c \in SaveInputs :
             c.id = "conn_b" /\ c.authType = "basic" /\ c.password = "pw1"}

InitDelete == InitToken

NextDelete ==
    \/ \E c \in DeleteInputs : SaveCredentials(c)
    \/ \E i \in Ids : DeleteCredentials(i)
    \/ \E i \in Ids : FetchCatalogs(i)
    \/ \E r \in requests, b \in Responses :
          RequestSucceeds(r, b.expires_in, b.token_type)

SpecDelete == InitDelete /\ [][NextDelete]_vars

(***************************************************************************)
(* Specification of the session binder: testConnection calls over a live   *)
(* token cache                                                             *)
(***************************************************************************)
InitTest == InitToken

NextTest ==
    \/ \E p \in Procs, c \in TestCreds : TestConnection(p, c)
    \/ \E p \in Procs : ImportDone(p)
    \/ \E p \in Procs, n \in {1, 2} : InitializeClient(p, n)
    \/ \E p \in Procs, n \in {1, 2} : LogAndList(p, n)
    \/ \E r \in requests, b \in Responses :
          TestTokenArrives(r, b.expires_in, b.token_type)
    \/ \E r \in requests, k \in FailKinds : TestTokenFails(r, k)
    \/ \E p \in Procs, o \in ListOutcomes : FirstListingDone(p, o)
    \/ \E p \in Procs, o \in ListOutcomes : RetryListingDone(p, o)

SpecTest == InitTest /\ [][NextTest]_vars

(***************************************************************************)
(* Specification of the session binder with disconnect, over a live token  *)
(* cache, observed up to the instant the first refresh is due              *)
(***************************************************************************)
InitSession == InitToken

NextSession ==
    \/ \E p \in Procs, c \in TestCreds : TestConnection(p, c)
    \/ \E p \in Procs : ImportDone(p)
    \/ \E p \in Procs, n \in {1, 2} : InitializeClient(p, n)
    \/ \E p \in Procs, n \in {1, 2} : LogAndList(p, n)
    \/ \E r \in requests, b \in Responses :
          TestTokenArrives(r, b.expires_in, b.token_type)
    \/ \E r \in requests, k \in FailKinds : TestTokenFails(r, k)
    \/ \E p \in Procs, o \in ListOutcomes : FirstListingDone(p, o)
    \/ \E p \in Procs, o \in ListOutcomes : RetryListingDone(p, o)
    \/ Disconnect
    \/ \E t \in Instants : Tick(t)

SpecSession == InitSession /\ [][NextSession]_vars

(***************************************************************************)
(* Specification of the session binder from its construction: the token    *)
(* cache is injected at some point, or never                               *)
(***************************************************************************)
\* the credentials objects used here: one of each authType
OpenCreds ==
    TestCreds
    \cup {Credentials("conn_b", "dev", "https://x/webdav",
                      [authType |-> "bearer", username |-> Undef, password |-> Undef,
                       token |-> "static-token", clientId |-> Undef,
                       clientSecret |-> Undef])}

InitOpen ==
    /\ InitCache
    /\ InitStore
    /\ Constructed
    /\ oauth2Manager = FALSE

NextOpen ==
    \/ SetOAuth2Manager
    \/ \E p \in Procs, c \in OpenCreds : TestConnection(p, c)
    \/ \E p \in Procs : ImportDone(p)
    \/ \E p \in Procs, n \in {1, 2} : InitializeClient(p, n)
    \/ \E p \in Procs, n \in {1, 2} : LogAndList(p, n)
    \/ \E r \in requests, b \in Responses :
          TestTokenArrives(r, b.expires_in, b.token_type)
    \/ \E r \in requests, k \in FailKinds : TestTokenFails(r, k)
    \/ \E p \in Procs, o \in ListOutcomes : FirstListingDone(p, o)
    \/ \E p \in Procs, o \in ListOutcomes : RetryListingDone(p, o)

SpecOpen == InitOpen /\ [][NextOpen]_vars

(***************************************************************************)
(* Specification of overlapping testConnection calls, the calls that wait  *)
(* for the module being resumed one by one or together                     *)
(***************************************************************************)
InitOverlap == InitToken

NextOverlap ==
    \/ \E p \in Procs, c \in OpenCreds : TestConnection(p, c)
    \/ \E p \in Procs : ImportDone(p)
    \/ \E p \in Procs : ImportDoneTogether(p)
    \/ \E p \in Procs : Yield(p)
    \/ \E p \in Procs, n \in {1, 2} : InitializeClient(p, n)
    \/ \E p \in Procs, n \in {1, 2} : LogAndList(p, n)
    \/ \E r \in requests, b \in Responses :
          TestTokenArrives(r, b.expires_in, b.token_type)
    \/ \E r \in requests, k \in FailKinds : TestTokenFails(r, k)
    \/ \E p \in Procs, o \in ListOutcomes : FirstListingDone(p, o)
    \/ \E p \in Procs, o \in ListOutcomes : RetryListingDone(p, o)

SpecOverlap == InitOverlap /\ [][NextOverlap]_vars

(***************************************************************************)
(* Properties of the token cache                                           *)
(***************************************************************************)

\* a foreground getAccessToken has just returned tok for id
Returned(e) ==
    \/ e.kind = "hit"
    \/ e.kind = "token" /\ e.caller # "timer"

\* a foreground getAccessToken has just been called
Called(e) == e.kind \in {"hit", "request"} /\ e.caller # "timer"

\* the token lifetime the manager assumes for a response, in milliseconds:
\* the declared expires_in, 3600 s when the response declares none
LifetimeMs(expires_in) == (IF expires_in = 0 THEN 3600 ELSE expires_in) * 1000

\* C1 (as claimed): once getAccessToken(id, forceRefresh=false) has returned a
\* token, whatever lifetime the server declared, an immediately following
\* getAccessToken(id, forceRefresh=false) returns the same token from the cache
\* and issues no token request.
C1_CacheHitAnyLifetime ==
    [][(/\ Returned(ev) /\ ~ev.force
        /\ Called(ev') /\ ~ev'.force /\ ev'.id = ev.id)
       => (ev'.kind = "hit" /\ ev'.tok = ev.tok /\ nextRid' = nextRid)]_vars

\* C2: a forced getAccessToken is never served from the cache: it issues a
\* token request for its id even when a valid entry exists; and when a forced
\* request succeeds the cache entry of the id holds the token that is returned.
C2_ForcedRefresh ==
    /\ (Called(ev) /\ ev.force) =>
          /\ ev.kind = "request"
          /\ \E r \in requests : r.rid = nextRid - 1 /\ r.id = ev.id /\ r.force
    /\ (ev.kind = "token" /\ ev.force) =>
          /\ tokens[ev.id] # NoToken
          /\ tokens[ev.id].accessToken = ev.tok

\* a forced call was made while a valid entry was cached, and went to the network
C2_Witness ==
    /\ ev.kind = "request" /\ ev.force
    /\ tokens[ev.id] # NoToken /\ tokens[ev.id].expiresAt > now

\* C4 (as claimed): once clearConnection(id) has run (here: for a deleted
\* connection) and getAccessToken has not been called for id since, the cache
\* has no entry for id, no refresh timer for id is registered or pending, and
\* no token request for id is started, whatever was in flight when it ran.
C4_NoDanglingCallback ==
    \A i \in cleared :
       /\ tokens[i] = NoToken
       /\ refreshTimers[i] = NoTimer
       /\ \A t \in timeouts : t.id # i
       /\ ~(ev.kind = "fire" /\ ev.id = i)

\* C6 (as claimed): the expiresAt of a stored entry is never earlier than the
\* time at which its response was processed.
C6_ExpiryNotInPast ==
    \A i \in Ids : tokens[i] # NoToken => tokens[i].expiresAt >= tokens[i].setAt

\* C7: for a declared expires_in = E > 300 the entry's expiresAt is the response
\* time plus (E - 300) seconds; while that entry is cached a call with
\* forceRefresh=false before expiresAt is answered from the cache with the
\* entry's token, a call at or after expiresAt goes to the network, and the
\* token its response carries is the one returned and cached.
C7_ExpiryBuffer ==
    /\ \A i \in Ids :
          (tokens[i] # NoToken /\ tokens[i].expires_in > 300) =>
             tokens[i].expiresAt = tokens[i].setAt + (tokens[i].expires_in - 300) * 1000
    /\ (Called(ev) /\ ~ev.force /\ tokens[ev.id] # NoToken) =>
          /\ now < tokens[ev.id].expiresAt =>
                (ev.kind = "hit" /\ ev.tok = tokens[ev.id].accessToken)
          /\ now >= tokens[ev.id].expiresAt =>
                (ev.kind = "request" /\ \E r \in requests : r.rid = nextRid - 1
                                                            /\ r.id = ev.id)
    /\ (ev.kind = "token" /\ ev.caller # "timer") =>
          (tokens[ev.id].accessToken = ev.tok /\ ev.tok \notin {0})

\* a call after the expiresAt of an entry with a declared lifetime above 300 s
\* went to the network
C7_Witness ==
    /\ ev.kind = "request" /\ ~ev.force
    /\ tokens[ev.id] # NoToken
    /\ tokens[ev.id].expires_in > 300
    /\ now > tokens[ev.id].expiresAt

\* C8 (as claimed): the refresh is scheduled max(L - 5 min, 1 min) after the
\* acquisition, L the lifetime the server declared.
C8_DelayFiveMinutes ==
    \A t \in timeouts :
       t.expires_in # 0 =>
          t.fireAt = t.setAt + Max(t.expires_in * 1000 - 300000, 60000)

\* C8 (amended): the refresh is scheduled max(L - 10 min, 1 min) after the
\* acquisition, L the lifetime the server declared (3600 s when it declared
\* none): the 5 minute buffer is taken off twice; never less than one minute.
C8_DelayTenMinutes ==
    \A t \in timeouts :
       /\ t.fireAt = t.setAt + Max(LifetimeMs(t.expires_in) - 600000, 60000)
       /\ t.fireAt - t.setAt >= 60000

\* refreshes are pending both above the floor and at the floor
C8_Witness ==
    /\ \E t \in timeouts : t.expires_in = 0 /\ t.fireAt = t.setAt + 3000000
    /\ \E t \in timeouts : t.expires_in = 400 /\ t.fireAt = t.setAt + 60000

\* C9 (as claimed): right after the token request of a fired background
\* refresh has failed, the cache has no entry for the id and no refresh timer
\* for the id is pending (so nothing requests a token for it until a caller
\* does).
C9_RefreshFailureEvicts ==
    (ev.kind = "failed" /\ ev.caller = "timer") =>
       /\ tokens[ev.id] = NoToken
       /\ refreshTimers[ev.id] = NoTimer
       /\ \A t \in timeouts : t.id # ev.id

(***************************************************************************)
(* Properties of the credential store                                      *)
(***************************************************************************)

\* the strings the store holds in cleartext: the fields of the public records
CleartextStrings ==
    UNION {{connections[k][f] :
              f \in {"name", "url", "authType", "username", "lastLocalFolder", "id"}} :
           k \in 1..Len(connections)}

\* the Secret Bundle stored (encrypted) for id
Bundle(i) == Parse(sensitiveData[i].text)

\* C3 (as claimed): when deleteCredentials(id) has just returned true, after
\* any saves, edits and token acquisitions, loadCredentials(id) fails, the token
\* cache has no entry for id and no refresh for id is left to fire.
C3_CascadeDelete ==
    ev.kind = "deleted" =>
       /\ ~LoadCredentials(ev.id).ok
       /\ tokens[ev.id] = NoToken
       /\ \A t \in timeouts : t.id # ev.id

RetriedCase(p) ==
    /\ tc[p].pc = "done"
    /\ tc[p].cred.authType = "oauth2"
    /\ tc[p].status1 \notin {"none", "ok"}

\* C5 (as claimed): whenever the first listing fails for OAuth2 credentials,
\* whatever the cause, testConnection makes exactly one forced token refresh
\* and exactly one more listing and returns the outcome of that listing.
C5_RetryOnAnyFailure ==
    \A p \in Procs :
       RetriedCase(p) =>
          /\ tc[p].forced = 1
          /\ tc[p].listings = 2
          /\ tc[p].result = (IF tc[p].status2 = "ok" THEN "true" ELSE "false")

\* C5 (amended): the retry is for status 401 only.  After a first listing that
\* failed with 401, exactly one forced refresh is made; a second listing is made
\* only if that refresh and the token lookups of the re-open succeed, and its
\* outcome is returned, otherwise false is returned.  After any other failure
\* false is returned with no refresh and no second listing.  No call makes more
\* than one forced refresh or more than two listings.
C5_SingleRetryOn401 ==
    \A p \in Procs :
       /\ tc[p].forced <= 1
       /\ tc[p].listings <= 2
       /\ tc[p].listings = 2 => tc[p].forced = 1
       /\ RetriedCase(p) =>
             IF tc[p].status1 = "401"
             THEN /\ tc[p].forced = 1
                  /\ tc[p].listings = 2 =>
                        tc[p].result = (IF tc[p].status2 = "ok" THEN "true" ELSE "false")
                  /\ tc[p].listings = 1 => tc[p].result = "false"
             ELSE /\ tc[p].forced = 0
                  /\ tc[p].listings = 1
                  /\ tc[p].result = "false"

\* a call was retried after a 401 and its second listing succeeded
C5_Witness ==
    \E p \in Procs :
       /\ RetriedCase(p)
       /\ tc[p].status1 = "401"
       /\ tc[p].forced = 1
       /\ tc[p].listings = 2
       /\ tc[p].result = "true"

(***************************************************************************)
(* Properties of the console output                                        *)
(***************************************************************************)

\* the fields whose values are secrets: password, static bearer token, access
\* token, client secret (under the names the printed objects give them)
SecretNames == {"password", "token", "access_token", "clientSecret", "client_secret"}

\* C11 (as claimed): no step of getAccessToken/requestNewToken, initializeClient
\* or testConnection prints a password, bearer token, access token or client
\* secret in full.
C11_NoSecretLogged ==
    \A l \in ev.log : \A pr \in l.full : pr[1] \notin SecretNames

(***************************************************************************)
(* Properties of the store under all public operations                     *)
(***************************************************************************)
\* the ids that have a public record / an encrypted blob
RecordIds == {connections[k].id : k \in 1..Len(connections)}
BlobIds == {i \in Ids : sensitiveData[i] # NoBlob}

\* C12 (as claimed): in every state reached through the public operations,
\* deleteFromKeychain included, the ids with a public record are the ids with
\* an encrypted blob.
C12_OneBundlePerConnection == RecordIds = BlobIds

\* C12 (amended): every id with a blob has a public record, no id has two
\* records, and every operation other than deleteFromKeychain keeps the two
\* sets equal when they are; deleteFromKeychain(id) leaves the record of id
\* without a blob.
C12_BundleOnlyWithRecord ==
    [][/\ BlobIds' \subseteq RecordIds'
       /\ Cardinality(RecordIds') = Len(connections')
       /\ (RecordIds = BlobIds /\ ev'.kind # "keychain") => RecordIds' = BlobIds'
       /\ ev'.kind = "keychain"
             => (RecordIds' = RecordIds /\ BlobIds' = BlobIds \ {ev'.id})]_vars

\* deleteFromKeychain has just left a connection without its bundle while
\* another connection has both
C12_Witness ==
    /\ ev.kind = "keychain"
    /\ ev.id \in RecordIds \ BlobIds
    /\ BlobIds # {}

\* the fields a save with the given authType puts into the Secret Bundle
BundleFields(authType) ==
    CASE authType = "basic" -> {"username", "password"}
      [] authType = "bearer" -> {"token"}
      [] OTHER -> {"clientId", "clientSecret"}

\* C13 (as claimed): whether or not a save or delete was interrupted, the store
\* is the result of complete operations: every blob has its public record,
\* every record its blob, and the two were written by the same save.
C13_CrashAtomic ==
    /\ RecordIds = BlobIds
    /\ \A k \in 1..Len(connections) :
          sensitiveData[connections[k].id] # NoBlob =>
             {f \in SecretFields : Bundle(connections[k].id)[f] # Undef}
                = BundleFields(connections[k].authType)

\* the id saveCredentials(credentials) returns (line 84, line 132)
SavedId(credentials) ==
    IF credentials.id # Undef THEN credentials.id
    ELSE GenerateConnectionId(credentials.name, now)

\* loadCredentials(id of the save of r) returns the public fields and the
\* secret fields of r
RoundTrip(r) ==
    LET loaded == LoadCredentials(SavedId(r)) IN
    /\ loaded.ok
    /\ loaded.credentials.id = SavedId(r)
    /\ \A f \in {"name", "url", "authType"} : loaded.credentials[f] = r[f]
    /\ \A f \in BundleFields(r.authType) : loaded.credentials[f] = r[f]

\* loadConnections shows no password, token, clientId or clientSecret: no
\* record has such a field, and no field of a record holds such a value of the
\* connection's bundle
ListHidesSecrets ==
    \A k \in 1..Len(LoadConnections) :
       LET conn == LoadConnections[k] IN
       /\ DOMAIN conn \cap {"password", "token", "clientId", "clientSecret"} = {}
       /\ sensitiveData[conn.id] # NoBlob =>
             \A f \in {"password", "token", "clientId", "clientSecret"} :
                Bundle(conn.id)[f] # Undef =>
                   \A g \in DOMAIN conn \ {"lastConnected"} :
                      conn[g] # Bundle(conn.id)[f]

\* C14: when saveCredentials(r) has returned, for r of any authType, new or
\* edited, loadCredentials of the returned id gives back the public fields
\* name, url, authType, id and the secret fields of r; and in every state
\* loadConnections exposes no password, token, clientId or clientSecret.
C14_SaveLoadRoundTrip ==
    /\ ev.kind = "saved" => (ev.id = SavedId(ev.arg) /\ RoundTrip(ev.arg))
    /\ ListHidesSecrets

\* a save under a generated id has just returned while another connection is
\* stored, and the saved OAuth2 secrets load
C14_Witness ==
    /\ ev.kind = "saved"
    /\ ev.arg.id = Undef
    /\ Len(connections) = 2
    /\ LoadCredentials(ev.id).ok
    /\ LoadCredentials(ev.id).credentials.authType = "oauth2"
    /\ LoadCredentials(ev.id).credentials.clientSecret = "csecret2"
    /\ ev.id = "conn_b"

\* C15: loadCredentials(id) fails with 'Connection not found' when no public
\* record has the id, and with the different 'Credentials not found in store'
\* when the record exists but no blob is stored for it; a failure carries no
\* credentials object, and the call leaves the store as it was.
C15_DistinctLookupErrors ==
    [][ev'.kind = "load" =>
          /\ UNCHANGED storeVars
          /\ ev'.id \notin RecordIds =>
                (~ev'.arg.ok /\ ev'.arg.error = "Connection not found")
          /\ ev'.id \in RecordIds \ BlobIds =>
                (~ev'.arg.ok /\ ev'.arg.error = "Credentials not found in store")
          /\ ~ev'.arg.ok => "credentials" \notin DOMAIN ev'.arg
          /\ ev'.id \in RecordIds \cap BlobIds => ev'.arg.ok]_vars

\* a connection whose record is stored but whose blob was removed has just
\* been looked up, and the lookup failed with the second error
C15_Witness ==
    /\ ev.kind = "load"
    /\ ev.id \in RecordIds \ BlobIds
    /\ ~ev.arg.ok
    /\ ev.arg.error = "Credentials not found in store"

\* the public records of the connections other than id, in their order
OtherRecords(conns, id) == SelectSeq(conns, LAMBDA c : c.id # id)

\* C16: deleteCredentials(id) returns true exactly when a public record with
\* the id existed; then the record and the blob of id are gone and the records
\* and blobs of all other connections are as before; for an unknown id it
\* returns false and leaves the store and the token cache as they were.
C16_DeleteFrame ==
    [][ev'.kind \in {"deleted", "deleteMiss"} =>
          /\ ev'.kind = "deleted" <=> ev'.id \in RecordIds
          /\ ev'.kind = "deleted" =>
                /\ ev'.id \notin RecordIds'
                /\ ev'.id \notin BlobIds'
                /\ connections' = OtherRecords(connections, ev'.id)
                /\ \A j \in Ids \ {ev'.id} : sensitiveData'[j] = sensitiveData[j]
                /\ encryptionSalt' = encryptionSalt
          /\ ev'.kind = "deleteMiss" => UNCHANGED <<storeVars, tokVars>>]_vars

\* a delete has just returned true and left the other connection with its
\* record, its blob and its cached token
C16_Witness ==
    /\ ev.kind = "deleted"
    /\ ev.id = "conn_b"
    /\ RecordIds = {"conn_a"}
    /\ BlobIds = {"conn_a"}
    /\ tokens["conn_a"] # NoToken

(***************************************************************************)
(* Properties of clearConnection                                           *)
(***************************************************************************)

\* C17 (as claimed): clearConnection(id) leaves no cache entry and no pending
\* refresh for id, leaves the entries and refreshes of every other id as they
\* were, and a second clearConnection(id) right after it changes nothing.
C17_ClearConnection ==
    [][ev'.kind = "clear" =>
          /\ tokens'[ev'.id] = NoToken
          /\ refreshTimers'[ev'.id] = NoTimer
          /\ \A t \in timeouts' : t.id # ev'.id
          /\ \A j \in Ids \ {ev'.id} :
                /\ tokens'[j] = tokens[j]
                /\ refreshTimers'[j] = refreshTimers[j]
          /\ {t \in timeouts' : t.id # ev'.id} = {t \in timeouts : t.id # ev'.id}
          /\ (ev.kind = "clear" /\ ev.id = ev'.id) => UNCHANGED tokVars]_vars

(***************************************************************************)
(* Properties of initializeClient and of the error policy                  *)
(***************************************************************************)

\* C18: initializeClient with oauth2 credentials and no OAuth2 manager injected
\* throws 'OAuth2 manager not available' and leaves client, currentCredentials
\* and the token cache as they were; the token cache is only contacted once
\* the manager is injected; for basic the client is built from username and
\* password, for bearer from credentials.token, both without contacting the
\* token cache; for oauth2 it is built from the access token of the cache.
C18_OpenWithoutManager ==
    [][LET c == tc[ev'.caller].cred IN
       /\ ev'.kind = "unavailable" =>
             /\ ~oauth2Manager
             /\ c.authType = "oauth2"
             /\ tc'[ev'.caller].thrown = "OAuth2 manager not available"
             /\ client' = client
             /\ currentCredentials' = currentCredentials
             /\ UNCHANGED tokVars
       /\ ev'.kind \in {"hit", "request", "token"} => oauth2Manager
       /\ ev'.kind = "client" =>
             /\ c.authType \in {"basic", "bearer"}
             /\ UNCHANGED tokVars
             /\ currentCredentials' = c
             /\ client'.cred = c
             /\ c.authType = "basic" =>
                   /\ client'.username = c.username
                   /\ client'.password = c.password
                   /\ client'.token = Undef
             /\ c.authType = "bearer" =>
                   /\ client'.token = c.token
                   /\ client'.username = Undef
                   /\ client'.password = Undef
       /\ (/\ ev'.kind \in {"hit", "token"}
           /\ tc[ev'.caller].pc \in {"init1", "init2", "tok_init1", "tok_init2"}) =>
             /\ c.authType = "oauth2"
             /\ currentCredentials' = c
             /\ client'.cred = c
             /\ client'.token = tokens'[c.id].accessToken
             /\ client'.username = Undef]_vars

\* an oauth2 open failed for want of the manager while a client built by an
\* earlier basic or bearer open is in place
C18_Witness ==
    /\ ev.kind = "unavailable"
    /\ ~oauth2Manager
    /\ currentCredentials.authType \in {"basic", "bearer"}
    /\ client = AuthConfig(currentCredentials, Undef)
    /\ \E p \in Procs : tc[p].thrown = "OAuth2 manager not available"

\* C19 (as claimed): testConnection returns false for ordinary authentication
\* and connectivity failures, and lets the 'OAuth2 manager not available' error
\* reach its caller instead of turning it into false.
C19_VerifyErrorPolicy ==
    \A p \in Procs :
       tc[p].pc = "done" =>
          /\ tc[p].thrown = "none" => tc[p].result \in {"true", "false"}
          /\ tc[p].status1 \in {"403", "network"} => tc[p].result = "false"
          /\ tc[p].thrown # "none" => tc[p].result \notin {"true", "false"}

(***************************************************************************)
(* Properties of a failed foreground token request                         *)
(***************************************************************************)

\* C20: a getAccessToken call that misses the cache issues exactly one token
\* request; when that request fails, whatever the cause, the error goes to the
\* caller, no further request is issued, and the cache entries, registered
\* timers and pending refreshes of every id are as they were.
C20_ForegroundFailure ==
    [][/\ (ev'.kind = "request" /\ ev'.caller = "env") =>
             /\ nextRid' = nextRid + 1
             /\ \E r \in requests' :
                   /\ r.id = ev'.id
                   /\ r.caller = "env"
                   /\ r \notin requests
                   /\ requests' = requests \cup {r}
             /\ UNCHANGED <<tokens, refreshTimers, timeouts>>
       /\ (ev'.kind = "failed" /\ ev'.caller = "env") =>
             /\ nextRid' = nextRid
             /\ \E r \in requests :
                   /\ r.id = ev'.id
                   /\ r.caller = "env"
                   /\ requests' = requests \ {r}
             /\ UNCHANGED <<tokens, refreshTimers, timeouts>>]_vars

\* a forced foreground request failed while the id and another id hold a
\* cached token with a pending refresh
C20_Witness ==
    /\ ev.kind = "failed"
    /\ ev.caller = "env"
    /\ ev.force
    /\ \A i \in Ids :
          /\ tokens[i] # NoToken
          /\ refreshTimers[i] # NoTimer
          /\ \E t \in timeouts : t.h = refreshTimers[i] /\ t.id = i

(***************************************************************************)
(* Properties of the refresh timers                                        *)
(***************************************************************************)

\* the refreshes pending for connection id
PendingFor(id) == {t \in timeouts : t.id = id}

\* C21 (as claimed): at most one refresh timer is pending for a connection id
\* in every reachable state of the token cache; a newly obtained token leaves
\* only its own timer pending for the id.
C21_OneTimerPerConnection ==
    /\ \A i \in Ids : Cardinality(PendingFor(i)) <= 1
    /\ ev.kind = "token" => \A t \in PendingFor(ev.id) : t.h = ev.tok

\* C24: between event-loop steps a connection id has an entry in the token map
\* exactly if it has an entry in the refresh-timer map.
C24_MapsAligned ==
    \A i \in Ids : (tokens[i] # NoToken) <=> (refreshTimers[i] # NoTimer)

\* the refresh callback of a connection failed while another connection keeps
\* its entry and its timer, and the maps were emptied by the catch block
C24_Witness ==
    /\ ev.kind = "failed"
    /\ ev.caller = "timer"
    /\ tokens[ev.id] = NoToken
    /\ refreshTimers[ev.id] = NoTimer
    /\ \E j \in Ids \ {ev.id} : tokens[j] # NoToken /\ refreshTimers[j] # NoTimer

(***************************************************************************)
(* Properties of overlapping token requests                                *)
(***************************************************************************)

\* the fields of a cache entry come from one token response
OfOneResponse(entry) ==
    \E b \in Responses :
       entry = NewEntry(entry.accessToken, entry.client, b.expires_in,
                        b.token_type, entry.setAt)

\* C22: the cache entry of an id is the entry of the token response that
\* landed last for it, also when that response belongs to a request issued
\* before the one whose entry it replaces, and every entry a reader can see
\* has all its fields from one response.
C22_LastWriteWins ==
    /\ \A i \in Ids : tokens[i] # NoToken => OfOneResponse(tokens[i])
    /\ ev.kind = "token" =>
          /\ tokens[ev.id].accessToken = ev.tok
          /\ tokens[ev.id].setAt = now
          /\ refreshTimers[ev.id] = ev.tok

\* two requests for the same id overlapped and both succeeded: the response
\* that landed last belongs to the request issued first
C22_Witness ==
    /\ ev.kind = "token"
    /\ ev.arg.overtaken
    /\ tokens[ev.id].accessToken = ev.tok

(***************************************************************************)
(* Properties of disconnect                                                *)
(***************************************************************************)

\* C23: disconnect sets client and currentCredentials to null and leaves
\* every cache entry, registered timer and pending refresh as it was; an open
\* for an oauth2 connection whose cached entry has not reached its expiresAt
\* takes the cached token and issues no token request.
C23_CloseKeepsTokens ==
    [][/\ ev'.kind = "disconnect" =>
             /\ client' = NoClient
             /\ currentCredentials' = NoCredentials
             /\ UNCHANGED tokVars
       /\ \A p \in Procs :
             (/\ running = p
              /\ tc[p].pc \in {"init1", "init2"}
              /\ tc'[p].pc # tc[p].pc
              /\ tc[p].cred.authType = "oauth2"
              /\ tokens[tc[p].cred.id] # NoToken
              /\ tokens[tc[p].cred.id].expiresAt > now) =>
                /\ ev'.kind = "hit"
                /\ ev'.tok = tokens[tc[p].cred.id].accessToken
                /\ client' = AuthConfig(tc[p].cred, tokens[tc[p].cred.id].accessToken)
                /\ UNCHANGED tokVars]_vars

\* after a disconnect, an open for the oauth2 connection found the token an
\* earlier session had obtained and built its client from it
C23_Witness ==
    /\ ev.kind = "hit"
    /\ ev.arg.closed
    /\ HasClient
    /\ client.cred.authType = "oauth2"
    /\ client = AuthConfig(client.cred, tokens[ev.id].accessToken)
    /\ requests = {}

(***************************************************************************)
(* Properties of the cache key                                             *)
(***************************************************************************)

\* C25 (as claimed): a token that getAccessToken(id, clientId, clientSecret)
\* returns from the cache was obtained by a request made with the same
\* clientId and clientSecret, also after the connection's credentials were
\* edited under the same id.
C25_TokenMatchesCredentials ==
    (ev.kind = "hit" /\ ev.caller = "env") =>
       /\ tokens[ev.id].accessToken = ev.tok
       /\ tokens[ev.id].client = ev.arg.supplied

(***************************************************************************)
(* Properties of the proactive refresh                                     *)
(***************************************************************************)

\* C26 (as claimed): the refresh scheduled when a token is stored is due no
\* later than the expiresAt of the entry stored with it, so that a call with
\* forceRefresh=false finds no expired entry while the refresh of that entry
\* has not failed.
C26_RefreshBeforeExpiry ==
    /\ \A t \in timeouts :
          (tokens[t.id] # NoToken /\ tokens[t.id].accessToken = t.h) =>
             t.fireAt <= tokens[t.id].expiresAt
    /\ (ev.kind = "request" /\ ev.caller = "env" /\ ~ev.force) =>
          tokens[ev.id] = NoToken

(***************************************************************************)
(* Properties of overlapping and failed testConnection calls               *)
(***************************************************************************)

\* C27 (as claimed): every directory listing of a testConnection call is made
\* with a client built from the credentials of that call.
C27_NoCrossing ==
    \A p \in Procs :
       tc[p].listings > 0 => tc[p].used.cred = tc[p].cred

\* C28 (as claimed): a testConnection call that returns false has not
\* replaced the client of a session opened with other credentials.
C28_FailedTestKeepsSession ==
    \A p \in Procs :
       (tc[p].pc = "done" /\ tc[p].result = "false") => ~tc[p].replaced

(***************************************************************************)
(* Properties of the connection ids                                        *)
(***************************************************************************)

\* no two records of the list have the same id
UniqueIds(conns) ==
    \A j, k \in 1..Len(conns) : conns[j].id = conns[k].id => j = k

\* C29: no two records of the connections list share an id; a save whose id,
\* supplied or generated, is in the list replaces that record where it is and
\* leaves the length and the other records as they were; a save whose id is
\* not in the list appends one record with that id.
C29_UniqueIds ==
    [][/\ UniqueIds(connections')
       /\ ev'.kind = "saved" =>
             LET idx == FindIndex(connections, ev'.id) IN
             IF idx > 0
             THEN /\ Len(connections') = Len(connections)
                  /\ connections'[idx].id = ev'.id
                  /\ \A k \in 1..Len(connections) :
                        k # idx => connections'[k] = connections[k]
             ELSE /\ Len(connections') = Len(connections) + 1
                  /\ connections'[Len(connections')].id = ev'.id
                  /\ \A k \in 1..Len(connections) :
                        connections'[k] = connections[k]]_vars

\* a save without an id generated the id of the first of two records and
\* replaced that record where it was
C29_Witness ==
    /\ ev.kind = "saved"
    /\ ev.arg.id = Undef
    /\ Len(connections) = 2
    /\ connections[1].id = ev.id
    /\ connections[2].id # ev.id

(***************************************************************************)
(* Properties of the encryption key                                        *)
(***************************************************************************)

\* C30 (as claimed): in every state reachable after construction, the states
\* after clearAll included, the store holds an encryption key, and no
\* saveCredentials fails for want of it.
C30_KeyAvailable ==
    /\ encryptionSalt # NoKey
    /\ ev.kind # "saveFailed"

====
